---- MODULE Spec2Model ----
(***************************************************************************)
(* Validation Authority (va/validation-authority.go).                      *)
(*                                                                         *)
(* Spec     : the dispatcher.  UpdateValidations starts a goroutine that   *)
(*            runs validate(); the goroutine's I/O (DNS lookup, HTTP GET,  *)
(*            TLS dial) are separate steps that interleave with the        *)
(*            caller and with other validation goroutines.                 *)
(* SpecVal  : the three validators as functions of the challenge and of    *)
(*            what the resolver and the peer answer.                       *)
(***************************************************************************)
EXTENDS Integers, Sequences, FiniteSets, TLC

\* ------------------------------------------------------------------ bounds
\* goroutines started by UpdateValidations
MaxTasks == 2
\* TXT strings returned by one LookupTXT
MaxTxt == 2
\* dNSName SANs in the peer's leaf certificate
MaxSans == 2
MaxCAA == 2

\* ------------------------------------------------------------ core values
StatusPending == "pending"
StatusValid == "valid"
StatusInvalid == "invalid"

MalformedProblem == "malformed"
UnauthorizedProblem == "unauthorized"
ServerInternalProblem == "serverInternal"
ConnectionProblem == "connection"
UnknownHostProblem == "unknownHost"
TLSProblem == "tls"
DNSSECProblem == "dnssec"

\* the closed set of problem types of core.ProblemDetails
ProblemTypes ==
  {MalformedProblem, UnauthorizedProblem, ServerInternalProblem,
   ConnectionProblem, UnknownHostProblem, TLSProblem, DNSSECProblem}

\* a nil *core.ProblemDetails
NoError == "none"

ChallengeTypeSimpleHTTP == "simpleHttp"
ChallengeTypeDVSNI == "dvsni"
ChallengeTypeDNS == "dns"
IdentifierDNS == "dns"

\* a nil error value
Nil == "nil"

\* core.Challenge.  tls is the *bool: "absent" (nil), "true", "false".
\* R and S are the base64url strings, nonce the DVSNI nonce.
Challenge(type, path, tls, token, nonce, R, S) ==
  [type |-> type, status |-> StatusPending, error |-> NoError,
   token |-> token, path |-> path, tls |-> tls,
   nonce |-> nonce, R |-> R, S |-> S]

\* what a validator hands back: a normal return of (challenge, err) from
\* the return statement `site` (err is nil, the challenge's own problem
\* "challenge.Error", an error made by fmt.Errorf, or the error of the
\* failed library call), a request for the next I/O operation, or a
\* run-time panic at `site` (a nil dereference), with the I/O done so far.
Return(ch, err, site, io) ==
  [kind |-> "return", challenge |-> ch, err |-> err, site |-> site, io |-> io]
Panic(ch, site, io) ==
  [kind |-> "panic", challenge |-> ch, err |-> Nil, site |-> site, io |-> io]
Continue(ch, io) ==
  [kind |-> "continue", challenge |-> ch, err |-> Nil, site |-> "none", io |-> io]

\* ------------------------------------------------- collaborators' answers
\* An error of the HTTP or TLS connect path.  url: wrapped in a *url.Error;
\* op: the (unwrapped) error is a *net.OpError; inner: what the OpError
\* wraps ("dns" a *net.DNSError, "tlsAlert" a tls.alert, "other").
NetErr(url, op, inner, timeout, temporary) ==
  [url |-> url, op |-> op, inner |-> inner,
   timeout |-> timeout, temporary |-> temporary]

\* JSON values of the payload, by dynamic type
JStr(s) == [t |-> "string", s |-> s, b |-> FALSE]
JBool(b) == [t |-> "bool", s |-> "", b |-> b]
JNum == [t |-> "number", s |-> "", b |-> FALSE]

PayloadKeys == {"type", "token", "path", "tls"}
NoFields == [k \in {} |-> JNum]

\* the JWS payload: kind "garbage" (not JSON), "array" (JSON, not an
\* object), "null" (the JSON null) or "object" with its members
Payload(kind, fields) == [kind |-> kind, fields |-> fields]

\* the HTTP response body: kind "readError", "garbage" (no JWS) or "jws"
\* with its number of signatures, the key embedded in the first signature
\* header, whether the signature verifies under that key, and the payload
Body(kind, nsigs, key, sigOK, payload) ==
  [kind |-> kind, nsigs |-> nsigs, key |-> key, sigOK |-> sigOK,
   payload |-> payload]

\* what client.Do returned: (httpResponse, err).  hasResp = FALSE is a nil
\* *http.Response.
HttpResult(failed, err, hasResp, status, body) ==
  [failed |-> failed, err |-> err, hasResp |-> hasResp, status |-> status,
   body |-> body]

\* a DNS name as compared byte for byte: the hex digest of `digestOf`
\* (kind "hex", written in upper case or not) or a plain text label,
\* followed by `suffix`
Name(kind, digestOf, text, upper, suffix) ==
  [kind |-> kind, digestOf |-> digestOf, text |-> text, upper |-> upper,
   suffix |-> suffix]

\* what tls.DialWithDialer returned: (conn, err); certs is
\* conn.ConnectionState().PeerCertificates, each the list of its DNSNames
DialResult(failed, err, certs) ==
  [failed |-> failed, err |-> err, certs |-> certs]

\* what LookupTXT returned: (txts, _, err)
TxtResult(err, txts) == [err |-> err, txts |-> txts]

\* ------------------------------------------------ helpers of package core
\* core.B64dec: the bytes of a base64url string, defined on the strings
\* that decode
B64Table ==
  ("AA" :> <<0>>) @@ ("_w" :> <<255>>) @@ ("AP8" :> <<0, 255>>) @@ ("" :> <<>>)
B64decFails(s) == s \notin DOMAIN B64Table
B64dec(s) == B64Table[s]

\* core.KeyDigest: the digest of the public key; a header without a key
\* has none
KeyDigestFails(key) == key = "absent"
KeyDigest(key) == <<"sha256", key>>
KeyDigestEquals(j, k) ==
  /\ ~KeyDigestFails(j)
  /\ ~KeyDigestFails(k)
  /\ KeyDigest(j) = KeyDigest(k)

\* Challenge.IsSane(true): the required type-specific fields are present
\* and well formed
IsSane(ch) ==
  CASE ch.type = ChallengeTypeSimpleHTTP -> ch.path # ""
    [] ch.type = ChallengeTypeDVSNI ->
         /\ ch.nonce # ""
         /\ ~B64decFails(ch.R) /\ ch.R # ""
         /\ ~B64decFails(ch.S) /\ ch.S # ""
    [] OTHER -> TRUE

\* subtle.ConstantTimeCompare(x, y) == 1
ConstantTimeCompare(x, y) == x = y

\* ---------------------------------------------------- parseHTTPConnError
parseHTTPConnError(err) ==
  \* the url.Error, if any, is unwrapped first; err.op is the unwrapped error
  IF err.op
  THEN IF err.inner = "dns" /\ ~err.timeout /\ ~err.temporary
       THEN UnknownHostProblem
       ELSE IF err.inner = "tlsAlert" THEN TLSProblem
       ELSE ConnectionProblem
  ELSE ConnectionProblem

\* mutant: every failed lookup is reported as serverInternal
dnsProblemAlwaysInternal(dnsErr) == ServerInternalProblem

\* the problem a failed LookupHost / LookupTXT is reported as
dnsProblem(dnsErr) ==
  IF dnsErr = "dnssec" THEN DNSSECProblem ELSE ServerInternalProblem

Fail(ch, type) == [ch EXCEPT !.status = StatusInvalid, !.error = type]

\* ------------------------------------------------------ validateSimpleHTTP
\* the set of paths with which fmt.Sprintf("%s://%s/.well-known/...") is
\* no URL http.NewRequest can parse (an invalid percent escape)
UnparsablePaths == {"a%zz"}

\* lines 102-113: the scheme, host and URL of the GET
simpleHTTPURL(va, identifier, input) ==
  LET scheme0 == IF input.tls = "absent" \/ (input.tls # "absent" /\ input.tls = "true")
                 THEN "https" ELSE "http"
      scheme == IF va.TestMode THEN "http" ELSE scheme0
      hostName == IF va.TestMode THEN "localhost:5001" ELSE identifier.value
  IN [scheme |-> scheme, host |-> hostName, path |-> input.path,
      hostHeader |-> hostName]

\* lines 59-81: up to the host lookup
simpleHTTPBegin(identifier, input) ==
  LET challenge == input
  IN IF challenge.path = ""
     THEN Return(Fail(challenge, MalformedProblem), "challenge.Error", "path", <<>>)
     ELSE IF identifier.type # IdentifierDNS
     THEN Return(Fail(challenge, MalformedProblem), "challenge.Error", "identifier", <<>>)
     ELSE Continue(challenge, <<>>)

\* lines 84-126: the answer of LookupHost, then the request is built
simpleHTTPAfterLookup(va, identifier, challenge, dnsErr) ==
  LET io == <<"LookupHost">>
  IN IF dnsErr # Nil
     THEN Return(Fail(challenge, dnsProblem(dnsErr)), "challenge.Error", "dns", io)
     ELSE IF simpleHTTPURL(va, identifier, challenge).path \in UnparsablePaths
     THEN Return(Fail(challenge, MalformedProblem), "NewRequest", "url", io)
     ELSE Continue(challenge, io)

\* lines 221-258: the parsed payload against the challenge; the site of
\* the failing return, or "ok"
checkPayload(challenge, fields) ==
  LET keys == DOMAIN fields
      isStr(k, s) == k \in keys /\ fields[k].t = "string" /\ fields[k].s = s
      typePassed == isStr("type", ChallengeTypeSimpleHTTP)
      tokenPassed == isStr("token", challenge.token)
      pathPassed == isStr("path", challenge.path)
      tlsValue == challenge.tls # "absent" /\ challenge.tls = "true"
      tlsPassed == /\ "tls" \in keys
                   /\ fields["tls"].t = "bool"
                   /\ fields["tls"].b = tlsValue
  IN IF Cardinality(keys) # 4 THEN "fieldCount"
     ELSE IF keys \ PayloadKeys # {} THEN "unknownField"
     ELSE IF ~typePassed \/ ~tokenPassed \/ ~pathPassed \/ ~tlsPassed
     THEN "unequalField"
     ELSE "ok"

\* lines 162-261: the body is read, parsed as a JWS and verified.
\* `challenge` already carries what lines 143-160 set.
simpleHTTPBody(challenge, accountKey, body, io) ==
  LET invalid == [challenge EXCEPT !.status = StatusInvalid]
      key == body.key
      payload == body.payload
      site == IF payload.kind = "object" THEN checkPayload(challenge, payload.fields)
              ELSE checkPayload(challenge, NoFields)
  IN IF body.kind = "readError" THEN Return(invalid, "readErr", "read", io)
     ELSE IF body.kind # "jws" THEN Return(invalid, "Errorf", "parse", io)
     ELSE IF body.nsigs > 1 THEN Return(invalid, "Errorf", "tooManySignatures", io)
     ELSE IF body.nsigs = 0 THEN Return(invalid, "Errorf", "notSigned", io)
     ELSE IF ~KeyDigestEquals(key, accountKey)
     \* line 193 calls err.Error() on the nil err of ParseSigned
     THEN Panic(challenge, "improperKey", io)
     ELSE IF ~body.sigOK THEN Return(invalid, "Errorf", "verify", io)
     ELSE IF payload.kind \in {"garbage", "array"}
     THEN Return(invalid, "Errorf", "json", io)
     ELSE IF site # "ok" THEN Return(invalid, "Errorf", site, io)
     ELSE Return([challenge EXCEPT !.status = StatusValid], Nil, "ok", io)

\* lines 141-261: the answer of client.Do
simpleHTTPAfterDo(challenge, accountKey, res) ==
  LET io == <<"LookupHost", "Get">>
      c1 == IF res.failed
            THEN Fail(challenge, parseHTTPConnError(res.err))
            ELSE challenge
      c2 == IF res.status # 200 THEN Fail(c1, UnauthorizedProblem) ELSE c1
  IN \* line 152 reads httpResponse.StatusCode whether or not Do failed
     IF ~res.hasResp THEN Panic(c1, "httpResponse", io)
     ELSE simpleHTTPBody(c2, accountKey, res.body, io)

\* the whole of validateSimpleHTTP, given what the resolver answers to
\* LookupHost and what client.Do returns
validateSimpleHTTP(va, identifier, input, accountKey, dnsErr, res) ==
  LET a == simpleHTTPBegin(identifier, input)
      b == simpleHTTPAfterLookup(va, identifier, a.challenge, dnsErr)
  IN IF a.kind # "continue" THEN a
     ELSE IF b.kind # "continue" THEN b
     ELSE simpleHTTPAfterDo(b.challenge, accountKey, res)

\* ----------------------------------------------------------- validateDvsni
DVSNIsuffix == ".acme.invalid"

\* line 278: challenge.Nonce + DVSNIsuffix, the SNI of the connection
nonceName(challenge) == Name("text", <<>>, challenge.nonce, FALSE, DVSNIsuffix)

\* lines 300-303: fmt.Sprintf("%064x.acme.invalid", sha256.Sum256(R || S));
\* the digest stands for its preimage, %x writes lower case
zName(R, S) == Name("hex", R \o S, "", FALSE, DVSNIsuffix)

\* lines 265-303: up to the host lookup
dvsniBegin(identifier, input) ==
  LET challenge == input
  IN IF identifier.type # "dns"
     THEN Return(Fail(challenge, MalformedProblem), "challenge.Error", "identifier", <<>>)
     ELSE IF B64decFails(challenge.R)
     THEN Return(Fail(challenge, MalformedProblem), "B64dec", "R", <<>>)
     ELSE IF B64decFails(challenge.S)
     THEN Return(Fail(challenge, MalformedProblem), "B64dec", "S", <<>>)
     ELSE Continue(challenge, <<>>)

\* lines 306-322: the answer of LookupHost
dvsniAfterLookup(challenge, dnsErr) ==
  LET io == <<"LookupHost">>
  IN IF dnsErr # Nil
     THEN Return(Fail(challenge, dnsProblem(dnsErr)), "challenge.Error", "dns", io)
     ELSE Continue(challenge, io)

\* mutant: the dNSNames are compared without regard to case
hasNameIgnoringCase(names, z) ==
  \E i \in 1..Len(names) : [names[i] EXCEPT !.upper = FALSE] = z

\* lines 357-362: some dNSName of the certificate is zName
hasName(names, z) == \E i \in 1..Len(names) : ConstantTimeCompare(names[i], z)

\* lines 331-369: the answer of tls.DialWithDialer
dvsniAfterDial(challenge, res) ==
  LET io == <<"LookupHost", "Dial">>
      z == zName(B64dec(challenge.R), B64dec(challenge.S))
  IN IF res.failed
     THEN Return(Fail(challenge, parseHTTPConnError(res.err)), "dial", "connect", io)
     ELSE IF Len(res.certs) = 0
     THEN Return(Fail(challenge, UnauthorizedProblem), "challenge.Error", "noCerts", io)
     ELSE IF hasName(res.certs[1], z)
     THEN Return([challenge EXCEPT !.status = StatusValid], Nil, "ok", io)
     ELSE Return(Fail(challenge, UnauthorizedProblem), "challenge.Error", "noName", io)

\* the whole of validateDvsni
validateDvsni(identifier, input, dnsErr, res) ==
  LET a == dvsniBegin(identifier, input)
      b == dvsniAfterLookup(a.challenge, dnsErr)
  IN IF a.kind # "continue" THEN a
     ELSE IF b.kind # "continue" THEN b
     ELSE dvsniAfterDial(b.challenge, res)

\* ------------------------------------------------------------- validateDNS
DNSPrefix == "_acme-challenge"

\* lines 395-405: up to the TXT lookup
dnsBegin(identifier, input) ==
  LET challenge == input
  IN IF identifier.type # IdentifierDNS
     THEN Return(Fail(challenge, MalformedProblem), "challenge.Error", "identifier", <<>>)
     ELSE Continue(challenge, <<>>)

\* mutant: only the first TXT string is compared with the token
dnsAfterLookupFirstOnly(challenge, res) ==
  LET io == <<"LookupTXT">>
      txts == res.txts
  IN IF res.err # Nil
     THEN Return(Fail(challenge, dnsProblem(res.err)), "challenge.Error", "dns", io)
     ELSE IF Len(txts) > 0 /\ ConstantTimeCompare(txts[1], challenge.token)
     THEN Return([challenge EXCEPT !.status = StatusValid], Nil, "ok", io)
     ELSE Return(Fail(challenge, UnauthorizedProblem), "challenge.Error", "noValue", io)

\* lines 410-442: the answer of LookupTXT
dnsAfterLookup(challenge, res) ==
  LET io == <<"LookupTXT">>
      txts == res.txts
  IN IF res.err # Nil
     THEN Return(Fail(challenge, dnsProblem(res.err)), "challenge.Error", "dns", io)
     ELSE IF \E i \in 1..Len(txts) : ConstantTimeCompare(txts[i], challenge.token)
     THEN Return([challenge EXCEPT !.status = StatusValid], Nil, "ok", io)
     ELSE Return(Fail(challenge, UnauthorizedProblem), "challenge.Error", "noValue", io)

\* the whole of validateDNS
validateDNS(identifier, input, res) ==
  LET a == dnsBegin(identifier, input)
  IN IF a.kind # "continue" THEN a ELSE dnsAfterLookup(a.challenge, res)

\* ------------------------------------------------- what the world answers
AccountKey == "account"
Token == "tok"
Path == "abc"

\* LookupHost / LookupTXT errors: none, a core.DNSSECError, any other
DnsErrs == {Nil, "dnssec", "other"}

NoNetErr == NetErr(FALSE, FALSE, "other", FALSE, FALSE)

\* errors of client.Do (always a *url.Error) and of tls.Dial
NetErrs(url) ==
  {NetErr(url, TRUE, "dns", FALSE, FALSE), NetErr(url, TRUE, "dns", TRUE, TRUE),
   NetErr(url, TRUE, "dns", FALSE, TRUE), NetErr(url, TRUE, "tlsAlert", FALSE, FALSE),
   NetErr(url, TRUE, "other", TRUE, TRUE), NetErr(url, FALSE, "other", FALSE, FALSE)}

JAbsent == [t |-> "absent", s |-> "", b |-> FALSE]
AllKeys == PayloadKeys \cup {"extra"}

\* the members of a JSON object, from one choice per key
Fields(f) == [k \in {x \in DOMAIN f : f[x].t # "absent"} |-> f[k]]

KeyChoices ==
  [type |-> {JAbsent, JStr(ChallengeTypeSimpleHTTP), JStr(ChallengeTypeDVSNI), JBool(TRUE)},
   token |-> {JAbsent, JStr(Token), JStr("other"), JNum},
   path |-> {JAbsent, JStr(Path), JStr("xyz"), JNum},
   tls |-> {JAbsent, JBool(TRUE), JBool(FALSE), JStr("true")},
   extra |-> {JAbsent, JStr("x")}]

\* every object payload over the choices above
AllObjects ==
  {Fields(f) : f \in {g \in [AllKeys -> UNION {KeyChoices[k] : k \in AllKeys}] :
                        \A k \in AllKeys : g[k] \in KeyChoices[k]}}

\* the payload S1 of the specification, with tls as given
GoodChoice(tls) ==
  [type |-> JStr(ChallengeTypeSimpleHTTP), token |-> JStr(Token),
   path |-> JStr(Path), tls |-> JBool(tls), extra |-> JAbsent]

\* of the object payloads, a sample of them: the good ones, a member missing, added, unequal, mistyped
SampleObjects ==
  {Fields(GoodChoice(TRUE)), Fields(GoodChoice(FALSE)),
   Fields([GoodChoice(TRUE) EXCEPT !.tls = JAbsent]),
   Fields([GoodChoice(TRUE) EXCEPT !.extra = JStr("x")]),
   Fields([GoodChoice(TRUE) EXCEPT !.token = JStr("other")]),
   Fields([GoodChoice(FALSE) EXCEPT !.path = JNum])}

Payloads(objects) ==
  {Payload("garbage", NoFields), Payload("array", NoFields), Payload("null", NoFields)}
    \cup {Payload("object", o) : o \in objects}

NoPayload == Payload("garbage", NoFields)
NoBody == Body("readError", 0, "absent", FALSE, NoPayload)

Bodies(objects) ==
  {NoBody, Body("garbage", 0, "absent", FALSE, NoPayload),
   Body("jws", 0, "absent", FALSE, NoPayload),
   Body("jws", 2, AccountKey, TRUE, Payload("object", Fields(GoodChoice(TRUE)))),
   Body("jws", 1, "other", TRUE, Payload("object", Fields(GoodChoice(TRUE)))),
   Body("jws", 1, "absent", FALSE, NoPayload),
   Body("jws", 1, AccountKey, FALSE, Payload("object", Fields(GoodChoice(TRUE))))}
    \cup {Body("jws", 1, AccountKey, TRUE, p) : p \in Payloads(objects)}

StatusCodes == {200, 201, 302, 404}

\* what client.Do can return: an error and no response; an error and the
\* last response of a redirect chain that was cut, its body closed; a
\* response
HttpResults(objects) ==
  {HttpResult(TRUE, e, FALSE, 0, NoBody) : e \in NetErrs(TRUE)}
    \cup {HttpResult(TRUE, NetErr(TRUE, FALSE, "other", FALSE, FALSE), TRUE, 302, NoBody)}
    \cup {HttpResult(FALSE, NoNetErr, TRUE, c, b) : c \in StatusCodes, b \in Bodies(objects)}

NoHttp == HttpResult(TRUE, NoNetErr, FALSE, 0, NoBody)

Nonce == "nonce"
RBytes == <<0>>
SBytes == <<255>>

\* dNSNames a peer may put in its certificate
SanNames ==
  {zName(RBytes, SBytes), zName(SBytes, RBytes),
   Name("hex", RBytes \o SBytes, "", TRUE, DVSNIsuffix),
   Name("hex", RBytes \o SBytes, "", FALSE, ".example"),
   Name("text", <<>>, Nonce, FALSE, DVSNIsuffix)}

SeqsUpTo(S, n) == UNION {[1..k -> S] : k \in 0..n}

\* PeerCertificates: none, a leaf, or a leaf and an issuer that carries zName
CertChains ==
  {<<>>} \cup {<<l>> : l \in SeqsUpTo(SanNames, MaxSans)}
         \cup {<<l, <<zName(RBytes, SBytes)>> >> : l \in SeqsUpTo(SanNames, MaxSans)}

DialResults ==
  {DialResult(TRUE, e, <<>>) : e \in NetErrs(FALSE)}
    \cup {DialResult(FALSE, NoNetErr, c) : c \in CertChains}

NoDial == DialResult(TRUE, NoNetErr, <<>>)

TxtResults ==
  {TxtResult(e, <<>>) : e \in DnsErrs \ {Nil}}
    \cup {TxtResult(Nil, l) : l \in SeqsUpTo({Token, "not-the-token"}, MaxTxt)}

NoTxt == TxtResult("other", <<>>)

\* ------------------------------------------- the caller's authorizations
DnsIdentifier == [type |-> IdentifierDNS, value |-> "d.example"]
IpIdentifier == [type |-> "ip", value |-> "192.0.2.1"]

SimpleHTTPChallenge(path, tls) ==
  Challenge(ChallengeTypeSimpleHTTP, path, tls, Token, "", "", "")
DvsniChallenge(R, S) ==
  Challenge(ChallengeTypeDVSNI, "", "absent", Token, Nonce, R, S)
DnsChallenge == Challenge(ChallengeTypeDNS, "", "absent", Token, "", "", "")
OtherChallenge == Challenge("proofOfPossession", "", "absent", Token, "", "", "")

Authorization(identifier, challenges) ==
  [identifier |-> identifier, challenges |-> challenges]

InputAuthzs ==
  {Authorization(DnsIdentifier, <<SimpleHTTPChallenge(Path, "true"), DnsChallenge>>),
   Authorization(DnsIdentifier, <<SimpleHTTPChallenge(Path, "absent"), DvsniChallenge("AA", "_w")>>),
   Authorization(DnsIdentifier, <<SimpleHTTPChallenge(Path, "false"), OtherChallenge>>),
   Authorization(DnsIdentifier, <<SimpleHTTPChallenge("", "true"), DvsniChallenge("!!", "_w")>>),
   Authorization(DnsIdentifier, <<SimpleHTTPChallenge("a%zz", "true"), DnsChallenge>>),
   Authorization(DnsIdentifier, <<DnsChallenge, OtherChallenge, DvsniChallenge("AA", "")>>),
   Authorization(IpIdentifier, <<SimpleHTTPChallenge(Path, "true"), DvsniChallenge("AA", "_w")>>),
   Authorization(IpIdentifier, <<DnsChallenge, OtherChallenge>>)}

\* ------------------------------------------------------------------ state
VARIABLES
  va,        \* the ValidationAuthorityImpl: [TestMode]
  authz,     \* the authorization of the caller; its Challenges slice is
             \* shared by every copy of the struct handed to a goroutine
  call,      \* call[t]: where the t-th call of UpdateValidations stands:
             \* "idle", "go" (goroutine started), "returned"
  callRet,   \* callRet[t]: what the t-th call returned ("none" before)
  args,      \* args[t]: challengeIndex, accountKey and the authorization
             \* as it was passed to the t-th call
  pc,        \* pc[t]: where goroutine t stands in validate()
  challenge, \* challenge[t]: the local `challenge` of the running validator
  logEvent,  \* logEvent[t]: the verificationRequestEvent being assembled
  io,        \* io[t]: the network operations goroutine t has completed
  audits,    \* audits[t]: the "Validation result" events emitted by t
  raCalls,   \* raCalls[t]: the authorizations t handed to OnValidationUpdate
  crashed,   \* the process was ended by a panic in a goroutine
  vin,       \* SpecVal: the inputs of one validator run
  vout       \* SpecVal: what the validator returned

vars == <<va, authz, call, callRet, args, pc, challenge, logEvent, io, audits,
          raCalls, crashed, vin, vout>>

Tasks == DOMAIN pc

NoArgs == [challengeIndex |-> 0, accountKey |-> AccountKey, passed |-> <<>>]
NoEvent == [Challenge |-> OtherChallenge, Error |-> Nil]
NoInput == [validator |-> "none"]
NoOutput == [kind |-> "none"]

Init ==
  /\ va \in [TestMode : BOOLEAN]
  /\ authz \in InputAuthzs
  /\ call = [t \in 1..MaxTasks |-> "idle"]
  /\ callRet = [t \in 1..MaxTasks |-> "none"]
  /\ args = [t \in 1..MaxTasks |-> NoArgs]
  /\ pc = [t \in 1..MaxTasks |-> "none"]
  /\ challenge = [t \in 1..MaxTasks |-> OtherChallenge]
  /\ logEvent = [t \in 1..MaxTasks |-> NoEvent]
  /\ io = [t \in 1..MaxTasks |-> <<>>]
  /\ audits = [t \in 1..MaxTasks |-> <<>>]
  /\ raCalls = [t \in 1..MaxTasks |-> <<>>]
  /\ crashed = FALSE
  /\ vin = NoInput
  /\ vout = NoOutput

\* --------------------------------------------------------------- validate
\* mutant: the sanity failure sets the error and leaves the status
insaneChallengeKeepsStatus(ch) == [ch EXCEPT !.error = MalformedProblem]

\* lines 457-460: the challenge that failed the sanity check
insaneChallenge(ch) == Fail(ch, MalformedProblem)

\* mutant: a type that matches no case is failed as malformed
dispatchFailsUnknown(identifier, ch) ==
  CASE ch.type = ChallengeTypeSimpleHTTP -> simpleHTTPBegin(identifier, ch)
    [] ch.type = ChallengeTypeDVSNI -> dvsniBegin(identifier, ch)
    [] ch.type = ChallengeTypeDNS -> dnsBegin(identifier, ch)
    [] OTHER -> Return(Fail(ch, MalformedProblem), "challenge.Error", "noCase", <<>>)

\* lines 466-476: the validator the switch selects runs up to its first
\* network operation; no case matches a type that is none of the three
dispatch(identifier, ch) ==
  CASE ch.type = ChallengeTypeSimpleHTTP -> simpleHTTPBegin(identifier, ch)
    [] ch.type = ChallengeTypeDVSNI -> dvsniBegin(identifier, ch)
    [] ch.type = ChallengeTypeDNS -> dnsBegin(identifier, ch)
    [] OTHER -> Return(ch, Nil, "noCase", <<>>)

\* the first network operation of the validator of a challenge type
firstIO(type) == IF type = ChallengeTypeDNS THEN "LookupTXT" ELSE "LookupHost"

\* mutant: the log event takes the challenge before the verdict is stored
ResumeLogsInput(t, r, next) ==
  /\ io' = [io EXCEPT ![t] = r.io]
  /\ CASE r.kind = "return" ->
            /\ authz' = [authz EXCEPT !.challenges[args[t].challengeIndex] = r.challenge]
            /\ logEvent' = [logEvent EXCEPT ![t] = [Challenge |-> authz.challenges[args[t].challengeIndex],
                                                       Error |-> r.err]]
            /\ pc' = [pc EXCEPT ![t] = "AuditObject"]
            /\ UNCHANGED <<challenge, crashed>>
       [] r.kind = "panic" ->
            /\ crashed' = TRUE
            /\ pc' = [pc EXCEPT ![t] = "panic"]
            /\ challenge' = [challenge EXCEPT ![t] = r.challenge]
            /\ UNCHANGED <<authz, logEvent>>
       [] OTHER ->
            /\ pc' = [pc EXCEPT ![t] = next]
            /\ challenge' = [challenge EXCEPT ![t] = r.challenge]
            /\ UNCHANGED <<authz, logEvent, crashed>>
  /\ UNCHANGED <<va, call, callRet, args, audits, raCalls, vin, vout>>

\* mutant: the verdict is stored at the first challenge
ResumeStoresFirst(t, r, next) ==
  /\ io' = [io EXCEPT ![t] = r.io]
  /\ CASE r.kind = "return" ->
            /\ authz' = [authz EXCEPT !.challenges[1] = r.challenge]
            /\ logEvent' = [logEvent EXCEPT ![t] = [Challenge |-> r.challenge, Error |-> r.err]]
            /\ pc' = [pc EXCEPT ![t] = "AuditObject"]
            /\ UNCHANGED <<challenge, crashed>>
       [] r.kind = "panic" ->
            /\ crashed' = TRUE
            /\ pc' = [pc EXCEPT ![t] = "panic"]
            /\ challenge' = [challenge EXCEPT ![t] = r.challenge]
            /\ UNCHANGED <<authz, logEvent>>
       [] OTHER ->
            /\ pc' = [pc EXCEPT ![t] = next]
            /\ challenge' = [challenge EXCEPT ![t] = r.challenge]
            /\ UNCHANGED <<authz, logEvent, crashed>>
  /\ UNCHANGED <<va, call, callRet, args, audits, raCalls, vin, vout>>

\* lines 468-481 after a validator came back with r: its challenge is
\* stored at challengeIndex and copied into the log event; a panic ends
\* the process; otherwise the validator goes on to the operation `next`
Resume(t, r, next) ==
  /\ io' = [io EXCEPT ![t] = r.io]
  /\ CASE r.kind = "return" ->
            /\ authz' = [authz EXCEPT !.challenges[args[t].challengeIndex] = r.challenge]
            /\ logEvent' = [logEvent EXCEPT ![t] = [Challenge |-> r.challenge, Error |-> r.err]]
            /\ pc' = [pc EXCEPT ![t] = "AuditObject"]
            /\ UNCHANGED <<challenge, crashed>>
       [] r.kind = "panic" ->
            /\ crashed' = TRUE
            /\ pc' = [pc EXCEPT ![t] = "panic"]
            /\ challenge' = [challenge EXCEPT ![t] = r.challenge]
            /\ UNCHANGED <<authz, logEvent>>
       [] OTHER ->
            /\ pc' = [pc EXCEPT ![t] = next]
            /\ challenge' = [challenge EXCEPT ![t] = r.challenge]
            /\ UNCHANGED <<authz, logEvent, crashed>>
  /\ UNCHANGED <<va, call, callRet, args, audits, raCalls, vin, vout>>

\* lines 492-493: `go va.validate(authz, challengeIndex, accountKey)`.
\* The struct is copied, the backing array of authz.Challenges is not.
\* The caller submits each challenge of the authorization at most once,
\* with an index inside the sequence.
UpdateValidations(t) ==
  /\ ~crashed
  /\ call[t] = "idle"
  /\ \A u \in Tasks : u < t => call[u] # "idle"
  /\ \E i \in 1..Len(authz.challenges) :
       /\ \A u \in Tasks : args[u].challengeIndex # i
       /\ args' = [args EXCEPT ![t] = [challengeIndex |-> i, accountKey |-> AccountKey,
                                       passed |-> authz.challenges]]
  /\ call' = [call EXCEPT ![t] = "go"]
  /\ pc' = [pc EXCEPT ![t] = "validate"]
  /\ UNCHANGED <<va, authz, callRet, challenge, logEvent, io, audits, raCalls,
                 crashed, vin, vout>>

\* mutant: the call waits for the validation before it returns
UpdateValidationsReturnWaits(t) ==
  /\ ~crashed
  /\ call[t] = "go"
  /\ pc[t] = "done"
  /\ call' = [call EXCEPT ![t] = "returned"]
  /\ callRet' = [callRet EXCEPT ![t] = Nil]
  /\ UNCHANGED <<va, authz, args, pc, challenge, logEvent, io, audits, raCalls,
                 crashed, vin, vout>>

\* line 494: `return nil`
UpdateValidationsReturn(t) ==
  /\ ~crashed
  /\ call[t] = "go"
  /\ call' = [call EXCEPT ![t] = "returned"]
  /\ callRet' = [callRet EXCEPT ![t] = Nil]
  /\ UNCHANGED <<va, authz, args, pc, challenge, logEvent, io, audits, raCalls,
                 crashed, vin, vout>>

\* lines 451-476: validate() from its entry to the first network operation
Validate(t) ==
  /\ ~crashed
  /\ pc[t] = "validate"
  /\ LET ch == authz.challenges[args[t].challengeIndex]
     IN IF ~IsSane(ch)
        THEN /\ authz' = [authz EXCEPT !.challenges[args[t].challengeIndex] = insaneChallenge(ch)]
             /\ logEvent' = [logEvent EXCEPT ![t] =
                               [Challenge |-> insaneChallenge(ch), Error |-> "sanity"]]
             /\ pc' = [pc EXCEPT ![t] = "AuditObject"]
             /\ UNCHANGED <<va, call, callRet, args, challenge, io, audits, raCalls,
                            crashed, vin, vout>>
        ELSE Resume(t, dispatch(authz.identifier, ch), firstIO(ch.type))

\* lines 84 and 306: DNSResolver.LookupHost answers
LookupHost(t) ==
  /\ ~crashed
  /\ pc[t] = "LookupHost"
  /\ \E dnsErr \in DnsErrs :
       IF challenge[t].type = ChallengeTypeSimpleHTTP
       THEN Resume(t, simpleHTTPAfterLookup(va, authz.identifier, challenge[t], dnsErr), "Get")
       ELSE Resume(t, dvsniAfterLookup(challenge[t], dnsErr), "Dial")

\* line 141: client.Do answers, and validateSimpleHTTP runs to its end
Get(t) ==
  /\ ~crashed
  /\ pc[t] = "Get"
  /\ \E res \in HttpResults(SampleObjects) :
       Resume(t, simpleHTTPAfterDo(challenge[t], args[t].accountKey, res), "none")

\* line 331: tls.DialWithDialer answers, and validateDvsni runs to its end
Dial(t) ==
  /\ ~crashed
  /\ pc[t] = "Dial"
  /\ \E res \in DialResults : Resume(t, dvsniAfterDial(challenge[t], res), "none")

\* line 410: DNSResolver.LookupTXT answers, and validateDNS runs to its end
LookupTXT(t) ==
  /\ ~crashed
  /\ pc[t] = "LookupTXT"
  /\ \E res \in TxtResults : Resume(t, dnsAfterLookup(challenge[t], res), "none")

\* line 485: va.log.AuditObject("Validation result", logEvent)
AuditObject(t) ==
  /\ ~crashed
  /\ pc[t] = "AuditObject"
  /\ audits' = [audits EXCEPT ![t] = Append(audits[t], logEvent[t])]
  /\ pc' = [pc EXCEPT ![t] = "OnValidationUpdate"]
  /\ UNCHANGED <<va, authz, call, callRet, args, challenge, logEvent, io, raCalls,
                 crashed, vin, vout>>

\* line 489: va.RA.OnValidationUpdate(authz); the struct handed over
\* shares the Challenges slice
OnValidationUpdate(t) ==
  /\ ~crashed
  /\ pc[t] = "OnValidationUpdate"
  /\ raCalls' = [raCalls EXCEPT ![t] = Append(raCalls[t], authz.challenges)]
  /\ pc' = [pc EXCEPT ![t] = "done"]
  /\ UNCHANGED <<va, authz, call, callRet, args, challenge, logEvent, io, audits,
                 crashed, vin, vout>>

Next ==
  \/ \E t \in Tasks : UpdateValidations(t)
  \/ \E t \in Tasks : UpdateValidationsReturn(t)
  \/ \E t \in Tasks : Validate(t)
  \/ \E t \in Tasks : LookupHost(t)
  \/ \E t \in Tasks : Get(t)
  \/ \E t \in Tasks : Dial(t)
  \/ \E t \in Tasks : LookupTXT(t)
  \/ \E t \in Tasks : AuditObject(t)
  \/ \E t \in Tasks : OnValidationUpdate(t)

Spec == Init /\ [][Next]_vars

\* ---------------------------------------------- the validators on their own
\* one run of a validator: its arguments and what the network answers to
\* the operations it gets to
ValInput(validator, identifier, input, dnsErr, http, dial, txt) ==
  [validator |-> validator, identifier |-> identifier, input |-> input,
   accountKey |-> AccountKey, dnsErr |-> dnsErr, http |-> http, dial |-> dial,
   txt |-> txt]

Identifiers == {DnsIdentifier, IpIdentifier}

SimpleHTTPInputs ==
  {ValInput(ChallengeTypeSimpleHTTP, id, SimpleHTTPChallenge(p, tls), e, h, NoDial, NoTxt) :
     id \in Identifiers, p \in {Path, "", "a%zz"}, tls \in {"absent", "true", "false"},
     e \in DnsErrs, h \in {NoHttp}}
  \cup
  {ValInput(ChallengeTypeSimpleHTTP, DnsIdentifier, SimpleHTTPChallenge(Path, tls), Nil, h, NoDial, NoTxt) :
     tls \in {"absent", "true", "false"}, h \in HttpResults(AllObjects)}

DvsniInputs ==
  {ValInput(ChallengeTypeDVSNI, id, DvsniChallenge(R, S), e, NoHttp, NoDial, NoTxt) :
     id \in Identifiers, R \in {"AA", "!!"}, S \in {"_w", "!!"}, e \in DnsErrs}
  \cup
  {ValInput(ChallengeTypeDVSNI, DnsIdentifier, DvsniChallenge(rs[1], rs[2]), Nil, NoHttp, d, NoTxt) :
     rs \in {<<"AA", "_w">>, <<"AP8", "">>, <<"_w", "AA">>}, d \in DialResults}

DnsInputs ==
  {ValInput(ChallengeTypeDNS, id, DnsChallenge, Nil, NoHttp, NoDial, x) :
     id \in Identifiers, x \in TxtResults}

InitVal ==
  /\ va \in [TestMode : BOOLEAN]
  /\ authz = Authorization(DnsIdentifier, <<>>)
  /\ call = <<>>
  /\ callRet = <<>>
  /\ args = <<>>
  /\ pc = <<>>
  /\ challenge = <<>>
  /\ logEvent = <<>>
  /\ io = <<>>
  /\ audits = <<>>
  /\ raCalls = <<>>
  /\ crashed = FALSE
  /\ vin \in SimpleHTTPInputs \cup DvsniInputs \cup DnsInputs
  /\ vout = NoOutput

Unrun(validator) == vin.validator = validator /\ vout.kind = "none"

ValidateSimpleHTTP ==
  /\ Unrun(ChallengeTypeSimpleHTTP)
  /\ vout' = validateSimpleHTTP(va, vin.identifier, vin.input, vin.accountKey,
                                vin.dnsErr, vin.http)
  /\ UNCHANGED <<va, authz, call, callRet, args, pc, challenge, logEvent, io,
                 audits, raCalls, crashed, vin>>

ValidateDvsni ==
  /\ Unrun(ChallengeTypeDVSNI)
  /\ vout' = validateDvsni(vin.identifier, vin.input, vin.dnsErr, vin.dial)
  /\ UNCHANGED <<va, authz, call, callRet, args, pc, challenge, logEvent, io,
                 audits, raCalls, crashed, vin>>

ValidateDNS ==
  /\ Unrun(ChallengeTypeDNS)
  /\ vout' = validateDNS(vin.identifier, vin.input, vin.txt)
  /\ UNCHANGED <<va, authz, call, callRet, args, pc, challenge, logEvent, io,
                 audits, raCalls, crashed, vin>>

NextVal == ValidateSimpleHTTP \/ ValidateDvsni \/ ValidateDNS

SpecVal == InitVal /\ [][NextVal]_vars

\* ======================================================= the CAA checker
\* A domain name is the sequence of its labels, the pieces strings.Split
\* (domain, ".") gives: "d.example." is <<"d", "example", "">> and the
\* empty string is <<"">>.

\* dns.CAA: the fields of a record the checker reads
CAA(tag, flag, value) == [Tag |-> tag, Flag |-> flag, Value |-> value]

\* what LookupCAA returned: (CAAs, err)
CAAResult(err, records) == [err |-> err, records |-> records]

\* CAASet (lines 498-503)
CAASet(issue, issuewild, iodef, unknown) ==
  [Issue |-> issue, Issuewild |-> issuewild, Iodef |-> iodef, Unknown |-> unknown]

\* strings.ToLower on the labels that have upper-case letters
LowerTable == ("SUB" :> "sub") @@ ("D" :> "d") @@ ("EXAMPLE" :> "example")
ToLower(domain) ==
  [i \in 1..Len(domain) |->
     IF domain[i] \in DOMAIN LowerTable THEN LowerTable[domain[i]] ELSE domain[i]]

\* strings.TrimRight(domain, "."): every trailing dot is cut
RECURSIVE TrimRight(_)
TrimRight(domain) ==
  IF Len(domain) > 1 /\ domain[Len(domain)] = ""
  THEN TrimRight(SubSeq(domain, 1, Len(domain) - 1))
  ELSE domain

\* mutant: only the first record of unknown tag is looked at
criticalUnknownFirstOnly(caaSet) ==
  Len(caaSet.Unknown) > 0 /\ caaSet.Unknown[1].Flag > 0

\* lines 506-518
criticalUnknown(caaSet) ==
  \E i \in 1..Len(caaSet.Unknown) : caaSet.Unknown[i].Flag > 0

\* lines 521-538
newCAASet(CAAs) ==
  LET isIssue(r) == r.Tag = "issue"
      isIssuewild(r) == r.Tag = "issuewild"
      isIodef(r) == r.Tag = "iodef"
      isUnknown(r) == r.Tag \notin {"issue", "issuewild", "iodef"}
  IN CAASet(SelectSeq(CAAs, isIssue), SelectSeq(CAAs, isIssuewild),
            SelectSeq(CAAs, isIodef), SelectSeq(CAAs, isUnknown))

\* DNSResolver.LookupCAA(queryDomain, alias) against a zone, a function
\* from (name, alias) to what the resolver answers; a name the zone does
\* not list has no records
LookupCAA(zone, queryDomain, alias) ==
  IF <<queryDomain, alias>> \in DOMAIN zone
  THEN zone[<<queryDomain, alias>>]
  ELSE CAAResult(Nil, <<>>)

\* what getCAASet returns: (*CAASet, error); found = FALSE is the nil
\* set.  queries lists the calls of LookupCAA made, in order.
CAASetResult(found, caaSet, err, queries) ==
  [found |-> found, set |-> caaSet, err |-> err, queries |-> queries]

\* mutant: a name is never queried with CNAME following
RECURSIVE getCAASetLoopSkipsAlias(_, _, _, _, _)
getCAASetLoopSkipsAlias(splitDomain, i, PublicSuffixList, zone, queries) ==
  LET queryDomain == SubSeq(splitDomain, i, Len(splitDomain))
      first == LookupCAA(zone, queryDomain, FALSE)
      q1 == Append(queries, <<queryDomain, FALSE>>)
      none == CAASet(<<>>, <<>>, <<>>, <<>>)
  IN IF i > Len(splitDomain) THEN CAASetResult(FALSE, none, Nil, queries)
     ELSE IF queryDomain \in PublicSuffixList
     THEN CAASetResult(FALSE, none, Nil, queries)
     ELSE IF first.err # Nil THEN CAASetResult(FALSE, none, first.err, q1)
     ELSE IF Len(first.records) > 0
     THEN CAASetResult(TRUE, newCAASet(first.records), Nil, q1)
     ELSE getCAASetLoopSkipsAlias(splitDomain, i + 1, PublicSuffixList, zone, q1)

\* mutant: a lookup that fails counts as one with no records
RECURSIVE getCAASetLoopIgnoresError(_, _, _, _, _)
getCAASetLoopIgnoresError(splitDomain, i, PublicSuffixList, zone, queries) ==
  LET queryDomain == SubSeq(splitDomain, i, Len(splitDomain))
      first == LookupCAA(zone, queryDomain, FALSE)
      second == LookupCAA(zone, queryDomain, TRUE)
      q1 == Append(queries, <<queryDomain, FALSE>>)
      q2 == Append(q1, <<queryDomain, TRUE>>)
      none == CAASet(<<>>, <<>>, <<>>, <<>>)
  IN IF i > Len(splitDomain) THEN CAASetResult(FALSE, none, Nil, queries)
     ELSE IF queryDomain \in PublicSuffixList
     THEN CAASetResult(FALSE, none, Nil, queries)
     ELSE IF first.err = Nil /\ Len(first.records) > 0
     THEN CAASetResult(TRUE, newCAASet(first.records), Nil, q1)
     ELSE IF second.err = Nil /\ Len(second.records) > 0
     THEN CAASetResult(TRUE, newCAASet(second.records), Nil, q2)
     ELSE getCAASetLoopIgnoresError(splitDomain, i + 1, PublicSuffixList, zone, q2)

\* mutant: a public suffix is passed over and the walk goes on to its parent
RECURSIVE getCAASetLoopPastSuffix(_, _, _, _, _)
getCAASetLoopPastSuffix(splitDomain, i, PublicSuffixList, zone, queries) ==
  LET queryDomain == SubSeq(splitDomain, i, Len(splitDomain))
      first == LookupCAA(zone, queryDomain, FALSE)
      second == LookupCAA(zone, queryDomain, TRUE)
      q1 == Append(queries, <<queryDomain, FALSE>>)
      q2 == Append(q1, <<queryDomain, TRUE>>)
      none == CAASet(<<>>, <<>>, <<>>, <<>>)
  IN IF i > Len(splitDomain) THEN CAASetResult(FALSE, none, Nil, queries)
     ELSE IF queryDomain \in PublicSuffixList
     THEN getCAASetLoopPastSuffix(splitDomain, i + 1, PublicSuffixList, zone, queries)
     ELSE IF first.err # Nil THEN CAASetResult(FALSE, none, first.err, q1)
     ELSE IF Len(first.records) > 0
     THEN CAASetResult(TRUE, newCAASet(first.records), Nil, q1)
     ELSE IF second.err # Nil THEN CAASetResult(FALSE, none, second.err, q2)
     ELSE IF Len(second.records) > 0
     THEN CAASetResult(TRUE, newCAASet(second.records), Nil, q2)
     ELSE getCAASetLoopPastSuffix(splitDomain, i + 1, PublicSuffixList, zone, q2)

\* lines 544-565: the loop over splitDomain from index i on
RECURSIVE getCAASetLoop(_, _, _, _, _)
getCAASetLoop(splitDomain, i, PublicSuffixList, zone, queries) ==
  LET queryDomain == SubSeq(splitDomain, i, Len(splitDomain))
      first == LookupCAA(zone, queryDomain, FALSE)
      second == LookupCAA(zone, queryDomain, TRUE)
      q1 == Append(queries, <<queryDomain, FALSE>>)
      q2 == Append(q1, <<queryDomain, TRUE>>)
      none == CAASet(<<>>, <<>>, <<>>, <<>>)
  IN IF i > Len(splitDomain) THEN CAASetResult(FALSE, none, Nil, queries)
     ELSE IF queryDomain \in PublicSuffixList
     THEN CAASetResult(FALSE, none, Nil, queries)
     ELSE IF first.err # Nil THEN CAASetResult(FALSE, none, first.err, q1)
     ELSE IF Len(first.records) > 0
     THEN CAASetResult(TRUE, newCAASet(first.records), Nil, q1)
     ELSE IF second.err # Nil THEN CAASetResult(FALSE, none, second.err, q2)
     ELSE IF Len(second.records) > 0
     THEN CAASetResult(TRUE, newCAASet(second.records), Nil, q2)
     ELSE getCAASetLoop(splitDomain, i + 1, PublicSuffixList, zone, q2)

\* lines 540-566
getCAASet(domain, PublicSuffixList, zone) ==
  getCAASetLoop(TrimRight(domain), 1, PublicSuffixList, zone, <<>>)

\* mutant: a record that matches anywhere in the bucket makes it valid
scanCheckSetAnyMatch(checkSet, i, IssuerDomain) ==
  \E j \in i..Len(checkSet) : checkSet[j].Value = IssuerDomain

\* lines 593-604: the scan of checkSet from index i on; the value of valid
RECURSIVE scanCheckSet(_, _, _)
scanCheckSet(checkSet, i, IssuerDomain) ==
  IF i > Len(checkSet) THEN FALSE
  ELSE IF checkSet[i].Value = IssuerDomain THEN TRUE
  ELSE IF checkSet[i].Flag > 0 THEN FALSE
  ELSE scanCheckSet(checkSet, i + 1, IssuerDomain)

\* what CheckCAARecords returns: (present, valid, err), and the lookups made
CheckResult(present, valid, err, queries) ==
  [kind |-> "return", present |-> present, valid |-> valid, err |-> err,
   queries |-> queries]

\* lines 570-607; the named results present and valid start as false
CheckCAARecords(v, identifier, PublicSuffixList, zone) ==
  LET domain == ToLower(identifier.value)
      r == getCAASet(domain, PublicSuffixList, zone)
      caaSet == r.set
      checkSet == IF domain[1] = "*" THEN caaSet.Issuewild ELSE caaSet.Issue
  IN IF r.err # Nil THEN CheckResult(FALSE, FALSE, r.err, r.queries)
     ELSE IF ~r.found THEN CheckResult(FALSE, TRUE, Nil, r.queries)
     ELSE IF criticalUnknown(caaSet) THEN CheckResult(TRUE, FALSE, Nil, r.queries)
     ELSE IF Len(caaSet.Issue) > 0 \/ Len(caaSet.Issuewild) > 0
     THEN CheckResult(TRUE, scanCheckSet(checkSet, 1, v.IssuerDomain), Nil, r.queries)
     ELSE CheckResult(FALSE, FALSE, Nil, r.queries)

\* --------------------------------------------- what the resolver answers
MyCA == "my-ca.example"
OtherCA == "other-ca.example"

\* the records a CAA answer is made of
CAARecords ==
  {CAA(t, f, v) : t \in {"issue", "issuewild"}, f \in {0, 1}, v \in {MyCA, OtherCA}}
    \cup {CAA("iodef", f, "mailto:x") : f \in {0, 1}}
    \cup {CAA("tbs", f, "x") : f \in {0, 1}}

NoRecords == CAAResult(Nil, <<>>)

CAAIdentifier(value) == [type |-> IdentifierDNS, value |-> value]

\* one run of CheckCAARecords: the identifier, the public suffix list of
\* package policy and the zone the resolver answers from
CAAInput(identifier, suffixes, zone) ==
  [validator |-> "caa", identifier |-> identifier, suffixes |-> suffixes,
   zone |-> zone]

\* the decision: one name with every answer of up to MaxCAA records, asked
\* for itself or for its wildcard
DecisionInputs ==
  {CAAInput(CAAIdentifier(d), {<<"example">>}, <<d, FALSE>> :> CAAResult(Nil, l)) :
     d \in {<<"d", "example">>, <<"*", "d", "example">>},
     l \in SeqsUpTo(CAARecords, MaxCAA)}

\* the walk: a name of three labels, written in lower case or in upper
\* case with a trailing dot, every zone over its suffixes
WalkNames == {<<"sub", "d", "example">>, <<"d", "example">>, <<"example">>}
WalkAnswers ==
  {NoRecords, CAAResult("other", <<>>), CAAResult(Nil, <<CAA("issue", 0, MyCA)>>),
   CAAResult(Nil, <<CAA("issue", 0, OtherCA)>>)}
SuffixLists == {{}, {<<"example">>}, {<<"d", "example">>}}

WalkInputs ==
  {CAAInput(CAAIdentifier(d), p, z) :
     d \in {<<"sub", "d", "example">>, <<"SUB", "D", "example", "">>},
     p \in SuffixLists,
     z \in [WalkNames \X BOOLEAN -> WalkAnswers]}

\* the failures: every zone over the suffixes whose lookups fail with a
\* DNSSEC error or another one, or answer with the issuer's record or none
ErrorAnswers ==
  {NoRecords, CAAResult("other", <<>>), CAAResult("dnssec", <<>>),
   CAAResult(Nil, <<CAA("issue", 0, MyCA)>>)}

ErrorInputs ==
  {CAAInput(CAAIdentifier(<<"sub", "d", "example">>), {}, z) :
     z \in [WalkNames \X BOOLEAN -> ErrorAnswers]}

InitCAA ==
  /\ va = [TestMode |-> FALSE, IssuerDomain |-> MyCA]
  /\ authz = Authorization(DnsIdentifier, <<>>)
  /\ call = <<>>
  /\ callRet = <<>>
  /\ args = <<>>
  /\ pc = <<>>
  /\ challenge = <<>>
  /\ logEvent = <<>>
  /\ io = <<>>
  /\ audits = <<>>
  /\ raCalls = <<>>
  /\ crashed = FALSE
  /\ vin \in DecisionInputs \cup WalkInputs \cup ErrorInputs
  /\ vout = NoOutput

\* CheckCAARecords(identifier) is called and returns
CheckCAA ==
  /\ Unrun("caa")
  /\ vout' = CheckCAARecords(va, vin.identifier, vin.suffixes, vin.zone)
  /\ UNCHANGED <<va, authz, call, callRet, args, pc, challenge, logEvent, io,
                 audits, raCalls, crashed, vin>>

NextCAA == CheckCAA

SpecCAA == InitCAA /\ [][NextCAA]_vars

\* ================================================================== claims
Index(t) == args[t].challengeIndex
Finished(t) == pc[t] \in {"done", "panic"}
Recognized(type) ==
  type \in {ChallengeTypeSimpleHTTP, ChallengeTypeDVSNI, ChallengeTypeDNS}

\* SpecVal: the validator has run; the SimpleHTTP run got an answer from
\* client.Do; that answer is a response whose body is a JWS with one
\* signature by the account key that verifies
Ran == vout.kind # "none"
DidGet == Ran /\ vin.validator = ChallengeTypeSimpleHTTP /\ vout.io = <<"LookupHost", "Get">>
GotResponse == DidGet /\ ~vin.http.failed
CorrectlySigned ==
  /\ GotResponse
  /\ vin.http.body.kind = "jws"
  /\ vin.http.body.nsigs = 1
  /\ vin.http.body.key = vin.accountKey
  /\ vin.http.body.sigOK

\* C1: no challenge of the authorization is ever valid with an error set.
C1_ValidHasNoError ==
  \A i \in 1..Len(authz.challenges) :
    authz.challenges[i].status = StatusValid => authz.challenges[i].error = NoError

\* the failures of validateSimpleHTTP from JWS parsing onward, by input
JwsFailure ==
  /\ GotResponse
  /\ vin.http.status = 200
  /\ vin.http.body.kind # "readError"
  /\ \/ ~CorrectlySigned
     \/ vin.http.body.payload.kind # "object"
     \/ checkPayload(vin.input, vin.http.body.payload.fields) # "ok"

\* C2: a validator that ends invalid leaves an error of the closed set, and
\* every SimpleHTTP failure from JWS parsing onward is invalid with
\* error type unauthorized.
C2_InvalidHasError ==
  /\ (Ran /\ vout.challenge.status = StatusInvalid) =>
        vout.challenge.error \in ProblemTypes
  /\ JwsFailure =>
        /\ vout.kind = "return"
        /\ vout.challenge.status = StatusInvalid
        /\ vout.challenge.error = UnauthorizedProblem

\* C3 as claimed: the challenge at challengeIndex handed to the RA is never
\* pending.
C3_NeverPending ==
  \A t \in Tasks :
    pc[t] = "done" =>
      raCalls[t][1][Index(t)].status \in {StatusValid, StatusInvalid}

\* C3 as amended: the challenge at challengeIndex handed to the RA is valid
\* or invalid if it failed the sanity check or has one of the three types;
\* a sane challenge of any other type is handed over as it was passed in.
C3_NeverPendingIfRecognized ==
  \A t \in Tasks :
    pc[t] = "done" =>
      LET before == args[t].passed[Index(t)]
          after == raCalls[t][1][Index(t)]
      IN IF IsSane(before) /\ ~Recognized(before.type)
         THEN after = before
         ELSE after.status \in {StatusValid, StatusInvalid}

C3_Witness ==
  \E t \in Tasks :
    /\ pc[t] = "done"
    /\ Recognized(args[t].passed[Index(t)].type)
    /\ raCalls[t][1][Index(t)].status = StatusValid

\* C4: a task that has ended has emitted exactly one audit event and made
\* exactly one RA callback, and no task ever does either twice.
C4_OneAuditOneCallback ==
  \A t \in Tasks :
    /\ Len(audits[t]) <= 1
    /\ Len(raCalls[t]) <= 1
    /\ Finished(t) => Len(audits[t]) = 1 /\ Len(raCalls[t]) = 1

\* C5: when the RA callback is made the audit event has already been
\* emitted, and it carries the challenge the RA finds at challengeIndex.
C5_AuditBeforeCallback ==
  [][\A t \in Tasks :
       Len(raCalls'[t]) > Len(raCalls[t]) =>
         /\ Len(audits[t]) = 1
         /\ audits'[t] = audits[t]
         /\ audits[t][1].Challenge = raCalls'[t][Len(raCalls'[t])][Index(t)]]_vars

C5_Witness ==
  \E t \in Tasks :
    /\ Len(raCalls[t]) = 1
    /\ raCalls[t][1][Index(t)].status = StatusInvalid
    /\ raCalls[t][1][Index(t)].error # NoError
    /\ audits[t][1].Error # Nil

Delivered(t) == raCalls[t][1]
Passed(t) == args[t].passed

\* a challenge differs from another in status and error at most
SameChallenge(a, b) == [a EXCEPT !.status = b.status, !.error = b.error] = b

\* C7 as claimed: the authorization handed to the RA has the challenges of
\* the authorization passed in, in the same order, and differs from it at
\* challengeIndex at most.
C7_OnlyIndexChanged ==
  \A t \in Tasks :
    Len(raCalls[t]) > 0 =>
      /\ Len(Delivered(t)) = Len(Passed(t))
      /\ \A j \in 1..Len(Passed(t)) : j # Index(t) => Delivered(t)[j] = Passed(t)[j]

\* C7 as amended: length and order are those of the authorization passed
\* in; a challenge that differs is the one at challengeIndex or the one at
\* the index of another invocation on the same authorization, which stored
\* its verdict before this callback.
C7_OnlySubmittedIndicesChanged ==
  \A t \in Tasks :
    Len(raCalls[t]) > 0 =>
      /\ Len(Delivered(t)) = Len(Passed(t))
      /\ \A j \in 1..Len(Passed(t)) :
           /\ SameChallenge(Delivered(t)[j], Passed(t)[j])
           /\ Delivered(t)[j] # Passed(t)[j] =>
                \E u \in Tasks :
                  /\ Index(u) = j
                  /\ u # t => pc[u] \in {"AuditObject", "OnValidationUpdate", "done"}

C7_Witness ==
  \E t \in Tasks, u \in Tasks :
    /\ t # u
    /\ Index(u) > 0
    /\ Len(raCalls[t]) > 0
    /\ Delivered(t)[Index(u)] # Passed(t)[Index(u)]
    /\ Delivered(t)[Index(t)] # Passed(t)[Index(t)]

\* the payload the claim says is the only one accepted
ExpectedFields(ch) ==
  ("type" :> JStr(ChallengeTypeSimpleHTTP)) @@ ("token" :> JStr(ch.token))
    @@ ("path" :> JStr(ch.path))
    @@ ("tls" :> JBool(ch.tls = "absent" \/ ch.tls = "true"))

\* C8: a correctly signed payload of a 200 response is accepted if and only
\* if it is the object of exactly type, token, path and tls of the
\* challenge, an absent tls counting as true.
C8_ExactFields ==
  (CorrectlySigned /\ vin.http.status = 200) =>
     ((vout.kind = "return" /\ vout.challenge.status = StatusValid)
        <=> /\ vin.http.body.payload.kind = "object"
            /\ vin.http.body.payload.fields = ExpectedFields(vin.input))

\* C9: a response that is not 2xx ends invalid with error type
\* unauthorized whatever its body, and a 2xx response is judged by its body
\* alone, as a 200 is.
C9_Non2xxUnauthorized ==
  GotResponse =>
    IF vin.http.status \in 200..299
    THEN vout = validateSimpleHTTP(va, vin.identifier, vin.input, vin.accountKey,
                                   vin.dnsErr, [vin.http EXCEPT !.status = 200])
    ELSE /\ vout.kind = "return"
         /\ vout.challenge.status = StatusInvalid
         /\ vout.challenge.error = UnauthorizedProblem

\* C10: when client.Do fails the validator returns invalid with the error
\* type of the classifier, one of unknownHost, tls, connection.
C10_TransportErrorReturns ==
  (DidGet /\ vin.http.failed) =>
     /\ vout.kind = "return"
     /\ vout.site = "connect"
     /\ vout.challenge.status = StatusInvalid
     /\ vout.challenge.error = parseHTTPConnError(vin.http.err)
     /\ vout.challenge.error \in {UnknownHostProblem, TLSProblem, ConnectionProblem}

\* SpecVal: the body of the response is a JWS with one signature whose
\* embedded key has another digest than the account key
KeyMismatch ==
  /\ GotResponse
  /\ vin.http.body.kind = "jws"
  /\ vin.http.body.nsigs = 1
  /\ ~KeyDigestEquals(vin.http.body.key, vin.accountKey)

\* C11: a response signed by a key whose digest differs from the account
\* key's makes validateSimpleHTTP return invalid with error type
\* unauthorized, whether or not the signature verifies under that key.
C11_KeyMismatchRejected ==
  KeyMismatch =>
    /\ vout.kind = "return"
    /\ vout.challenge.status = StatusInvalid
    /\ vout.challenge.error = UnauthorizedProblem

\* SpecVal: validateDvsni has run; it got an answer from the dial
RanDvsni == Ran /\ vin.validator = ChallengeTypeDVSNI
Dialled == RanDvsni /\ vout.io = <<"LookupHost", "Dial">>

\* the name the peer must present: 64 lower-case hex digits of
\* SHA-256(R || S), then ".acme.invalid"
ExpectedSan ==
  [kind |-> "hex", digestOf |-> B64dec(vin.input.R) \o B64dec(vin.input.S),
   text |-> "", upper |-> FALSE, suffix |-> ".acme.invalid"]

\* the leaf certificate of the peer carries the expected name
LeafHasSan ==
  /\ Len(vin.dial.certs) > 0
  /\ \E i \in 1..Len(vin.dial.certs[1]) : vin.dial.certs[1][i] = ExpectedSan

\* C12: validateDvsni ends valid only after a successful dial whose leaf
\* certificate carries exactly hex(SHA-256(R || S)).acme.invalid among its
\* dNSNames; a peer with no certificate or no such name in the leaf ends
\* invalid with error type unauthorized.
C12_DvsniValidOnlyByLeafSan ==
  /\ (RanDvsni /\ vout.challenge.status = StatusValid) =>
        /\ Dialled
        /\ ~vin.dial.failed
        /\ LeafHasSan
  /\ (Dialled /\ ~vin.dial.failed /\ ~LeafHasSan) =>
        /\ vout.kind = "return"
        /\ vout.challenge.status = StatusInvalid
        /\ vout.challenge.error = UnauthorizedProblem

C12_Witness ==
  /\ Dialled
  /\ vout.challenge.status = StatusValid
  /\ Len(vin.dial.certs) = 1
  /\ Len(vin.dial.certs[1]) = 2
  /\ vin.dial.certs[1][1] # ExpectedSan
  /\ vin.dial.certs[1][2] = ExpectedSan

\* SpecVal: validateDNS has run on a dns identifier and the TXT lookup
\* succeeded
DnsLookedUp ==
  /\ Ran
  /\ vin.validator = ChallengeTypeDNS
  /\ vin.identifier.type = IdentifierDNS
  /\ vin.txt.err = Nil

TokenInTxts == \E i \in 1..Len(vin.txt.txts) : vin.txt.txts[i] = vin.input.token

\* C13: after a successful TXT lookup validateDNS returns valid with no
\* error if some TXT string, at any position, equals the token, and invalid
\* with error type unauthorized otherwise.
C13_DnsValidIffTokenFound ==
  DnsLookedUp =>
    /\ vout.kind = "return"
    /\ vout.io = <<"LookupTXT">>
    /\ IF TokenInTxts
       THEN /\ vout.challenge.status = StatusValid
            /\ vout.challenge.error = NoError
            /\ vout.err = Nil
       ELSE /\ vout.challenge.status = StatusInvalid
            /\ vout.challenge.error = UnauthorizedProblem

C13_Witness ==
  /\ DnsLookedUp
  /\ vin.txt.txts = <<"not-the-token", vin.input.token>>
  /\ vout.challenge.status = StatusValid

\* SpecVal: the error of the DNS lookup the validator made (LookupTXT for
\* validateDNS, LookupHost for the two others)
LookupErr == IF vin.validator = ChallengeTypeDNS THEN vin.txt.err ELSE vin.dnsErr
LookupFailed == Ran /\ vout.io # <<>> /\ LookupErr # Nil

\* C14: a lookup that fails with a DNSSEC error ends invalid with error
\* type dnssec, any other lookup failure invalid with serverInternal, and
\* the lookup is then the only network operation of the run.
C14_DnsFailureTypes ==
  LookupFailed =>
    /\ vout.kind = "return"
    /\ vout.challenge.status = StatusInvalid
    /\ vout.challenge.error =
         (IF LookupErr = "dnssec" THEN DNSSECProblem ELSE ServerInternalProblem)
    /\ Len(vout.io) = 1
    /\ vout.io[1] \in {"LookupHost", "LookupTXT"}

C14_Witness ==
  /\ LookupFailed
  /\ vin.validator = ChallengeTypeDVSNI
  /\ LookupErr = "dnssec"
  /\ vout.challenge.error = DNSSECProblem

\* Spec: the challenge task t was started for passed the sanity check and
\* has a type that matches no case of the dispatcher
Unrecognized(t) ==
  /\ Index(t) > 0
  /\ IsSane(Passed(t)[Index(t)])
  /\ ~Recognized(Passed(t)[Index(t)].type)

\* C20: a task whose challenge has an unrecognized type runs no validator
\* (it never stands at a network operation and completes none), none of its
\* steps changes the authorization, its challenge stays as it was passed
\* in, its audit event carries that challenge and no error, and once it has
\* ended it has emitted the event and handed the RA the authorization as it
\* stands.
C20_UnrecognizedUntouched ==
  /\ [](\A t \in Tasks :
          Unrecognized(t) =>
            /\ pc[t] \in {"validate", "AuditObject", "OnValidationUpdate", "done"}
            /\ io[t] = <<>>
            /\ authz.challenges[Index(t)] = Passed(t)[Index(t)]
            /\ Len(audits[t]) > 0 =>
                 audits[t][1] = [Challenge |-> Passed(t)[Index(t)], Error |-> Nil]
            /\ pc[t] = "done" =>
                 /\ Len(audits[t]) = 1
                 /\ Len(raCalls[t]) = 1
                 /\ Delivered(t)[Index(t)] = Passed(t)[Index(t)])
  /\ [][\A t \in Tasks :
          (Unrecognized(t) /\ pc'[t] # pc[t]) =>
            /\ authz' = authz
            /\ Len(raCalls'[t]) > Len(raCalls[t]) =>
                 raCalls'[t] = <<authz.challenges>>]_vars

C20_Witness ==
  \E t \in Tasks :
    /\ Unrecognized(t)
    /\ pc[t] = "done"
    /\ Len(audits[t]) = 1
    /\ Len(raCalls[t]) = 1
    /\ Delivered(t)[Index(t)].status = StatusPending

\* SpecCAA: CheckCAARecords has returned; the lookups it made; what the
\* resolver answered to the k-th of them
RanCAA == vin.validator = "caa" /\ vout.kind = "return"
Queries == vout.queries
Answered(k) == LookupCAA(vin.zone, Queries[k][1], Queries[k][2])
Empty(k) == Answered(k).err = Nil /\ Answered(k).records = <<>>

\* the record set the walk found: the answer to its last lookup, if that
\* has records
FoundRecords ==
  IF Len(Queries) > 0 /\ Answered(Len(Queries)).err = Nil
  THEN Answered(Len(Queries)).records
  ELSE <<>>
Found == RanCAA /\ Len(FoundRecords) > 0

Restrictive == \E i \in 1..Len(FoundRecords) : FoundRecords[i].Tag \in {"issue", "issuewild"}
CriticalUnknown ==
  \E i \in 1..Len(FoundRecords) :
    /\ FoundRecords[i].Tag \notin {"issue", "issuewild", "iodef"}
    /\ FoundRecords[i].Flag # 0

\* C15: a found record set with no issue record, no issuewild record and
\* no critical record of unknown tag gives (present = true, valid = true).
C15_UnrestrictedIsValid ==
  (Found /\ ~Restrictive /\ ~CriticalUnknown) =>
    /\ vout.present
    /\ vout.valid
    /\ vout.err = Nil

\* the bucket the claim has scanned: the issuewild records of the found set
\* if the first label of the domain is "*", else its issue records
Wildcard == vin.identifier.value[1] = "*"
Bucket ==
  LET inBucket(r) == r.Tag = (IF Wildcard THEN "issuewild" ELSE "issue")
  IN SelectSeq(FoundRecords, inBucket)

\* C16: a found set with an issue or issuewild record and no critical
\* unknown record gives present = true, and valid = true exactly when a
\* record of the one bucket has the issuer's value and no record before it
\* in the bucket is a non-matching one with non-zero flag.
C16_BucketDecides ==
  (Found /\ Restrictive /\ ~CriticalUnknown) =>
    /\ vout.present
    /\ vout.err = Nil
    /\ vout.valid <=>
         \E i \in 1..Len(Bucket) :
           /\ Bucket[i].Value = va.IssuerDomain
           /\ \A j \in 1..(i - 1) :
                ~(Bucket[j].Value # va.IssuerDomain /\ Bucket[j].Flag # 0)

C16_Witness ==
  /\ Found
  /\ Wildcard
  /\ FoundRecords = <<CAA("issuewild", 0, OtherCA), CAA("issuewild", 1, MyCA)>>
  /\ vout.present
  /\ vout.valid

\* C17: a found set with a record of unknown tag and non-zero flag gives
\* (present = true, valid = false), whatever else it holds.
C17_CriticalUnknownInvalid ==
  (Found /\ CriticalUnknown) =>
    /\ vout.present
    /\ ~vout.valid
    /\ vout.err = Nil

C17_Witness ==
  /\ Found
  /\ FoundRecords = <<CAA("issue", 0, MyCA), CAA("tbs", 1, "x")>>
  /\ vout.present
  /\ ~vout.valid

\* the suffixes of the domain, most specific first, and the order in which a
\* full walk looks them up: each without, then with CNAME following
Candidates ==
  LET d == TrimRight(ToLower(vin.identifier.value))
  IN [i \in 1..Len(d) |-> SubSeq(d, i, Len(d))]
FullOrder ==
  [k \in 1..(2 * Len(Candidates)) |-> <<Candidates[(k + 1) \div 2], k % 2 = 0>>]

\* scenario S7: sub.d.example has no records, d.example has issue = issuer
ScenarioS7 ==
  /\ RanCAA
  /\ vin.identifier.value = <<"sub", "d", "example">>
  /\ <<"d", "example">> \notin vin.suffixes
  /\ LookupCAA(vin.zone, <<"sub", "d", "example">>, FALSE) = NoRecords
  /\ LookupCAA(vin.zone, <<"sub", "d", "example">>, TRUE) = NoRecords
  /\ LookupCAA(vin.zone, <<"d", "example">>, FALSE) =
       CAAResult(Nil, <<CAA("issue", 0, va.IssuerDomain)>>)

\* C18: the lookups made are an initial part of the full order; each but
\* the last was answered with no records; a candidate answered with no
\* records twice is followed by its parent unless that is a public suffix;
\* and the result is the one the last answer alone gives.
C18_WalkOrder ==
  RanCAA =>
    /\ Len(Queries) <= Len(FullOrder)
    /\ \A k \in 1..Len(Queries) : Queries[k] = FullOrder[k]
    /\ \A k \in 1..(Len(Queries) - 1) : Empty(k)
    /\ \A k \in 1..Len(Queries) :
         (Empty(k) /\ k < Len(FullOrder) /\ FullOrder[k + 1][1] \notin vin.suffixes)
           => Len(Queries) > k
    /\ Found =>
         LET last == Queries[Len(Queries)]
             alone == CheckCAARecords(va, vin.identifier, vin.suffixes,
                                      last :> Answered(Len(Queries)))
         IN vout.present = alone.present /\ vout.valid = alone.valid
    /\ ScenarioS7 => vout.present /\ vout.valid

C18_Witness ==
  /\ ScenarioS7
  /\ Queries = << <<<<"sub", "d", "example">>, FALSE>>, <<<<"sub", "d", "example">>, TRUE>>,
                  <<<<"d", "example">>, FALSE>> >>
  /\ LookupCAA(vin.zone, <<"example">>, FALSE) = CAAResult(Nil, <<CAA("issue", 0, OtherCA)>>)
  /\ vout.present
  /\ vout.valid

\* C19: when every lookup of the walk succeeded with no records the result
\* is (present = false, valid = true) with no error; and no lookup is ever
\* made for a candidate on the public suffix list or for a suffix of one.
C19_NoRecordsAndSuffixStop ==
  RanCAA =>
    /\ (\A k \in 1..Len(Queries) : Empty(k)) =>
         /\ ~vout.present
         /\ vout.valid
         /\ vout.err = Nil
    /\ \A j \in 1..Len(Candidates) :
         Candidates[j] \in vin.suffixes =>
           \A i \in j..Len(Candidates), k \in 1..Len(Queries) :
             Queries[k][1] # Candidates[i]

C19_Witness ==
  /\ RanCAA
  /\ vin.suffixes = {<<"d", "example">>}
  /\ LookupCAA(vin.zone, <<"example">>, FALSE) = CAAResult(Nil, <<CAA("issue", 0, OtherCA)>>)
  /\ LookupCAA(vin.zone, <<"d", "example">>, FALSE) = CAAResult(Nil, <<CAA("issue", 0, OtherCA)>>)
  /\ Len(Queries) = 2
  /\ ~vout.present
  /\ vout.valid
  /\ vout.err = Nil

\* the first lookup of the full order that is not answered with no records
\* (0 if there is none), and whether a full walk gets to the k-th lookup:
\* no candidate up to its own is a public suffix
FirstNotEmpty ==
  LET answer(k) == LookupCAA(vin.zone, FullOrder[k][1], FullOrder[k][2])
      notEmpty == {k \in 1..Len(FullOrder) : answer(k) # NoRecords}
  IN IF notEmpty = {} THEN 0
     ELSE CHOOSE k \in notEmpty : \A m \in notEmpty : k <= m
Reached(k) == \A m \in 1..k : FullOrder[m][1] \notin vin.suffixes

\* C21: a lookup of the walk that fails is its last one, and the call then
\* returns that lookup's error with present = false and valid = false; so
\* whenever the first lookup of the order that does not come back empty is
\* a failure, the call fails with its error whatever the less specific
\* names hold; and the call returns an error only in that way.
C21_LookupErrorFailsClosed ==
  RanCAA =>
    /\ \A k \in 1..Len(Queries) :
         Answered(k).err # Nil =>
           /\ k = Len(Queries)
           /\ vout.err = Answered(k).err
           /\ ~vout.present
           /\ ~vout.valid
    /\ (FirstNotEmpty > 0 /\ Reached(FirstNotEmpty)
          /\ LookupCAA(vin.zone, FullOrder[FirstNotEmpty][1],
                       FullOrder[FirstNotEmpty][2]).err # Nil) =>
         /\ Len(Queries) = FirstNotEmpty
         /\ vout.err = Answered(FirstNotEmpty).err
         /\ ~vout.present
         /\ ~vout.valid
    /\ vout.err # Nil =>
         /\ Len(Queries) > 0
         /\ vout.err = Answered(Len(Queries)).err

C21_Witness ==
  /\ RanCAA
  /\ LookupCAA(vin.zone, <<"sub", "d", "example">>, FALSE) = NoRecords
  /\ LookupCAA(vin.zone, <<"sub", "d", "example">>, TRUE) = CAAResult("dnssec", <<>>)
  /\ LookupCAA(vin.zone, <<"d", "example">>, FALSE) = CAAResult(Nil, <<CAA("issue", 0, MyCA)>>)
  /\ Len(Queries) = 2
  /\ vout.err = "dnssec"
  /\ ~vout.present
  /\ ~vout.valid
====
